---------------------------- MODULE Spec2Model ----------------------------
(***************************************************************************)
(* Model of package converters (azure/converters/vmss.go, subnets.go).     *)
(*                                                                         *)
(* ParseImageID, SDKImageToImage, SDKToVMSSVM and GetSubnetAddresses are    *)
(* pure conversions.  Each one is an operator computed the way the Go code *)
(* computes it, and the state machine is a harness: Init draws one call    *)
(* (function and arguments) from bounded input sets, and the action of     *)
(* that function applies it and stores what it returned, together with the *)
(* number of errors logged and of calls of ParseImageID.                   *)
(*                                                                         *)
(* Representation of Go values                                             *)
(*   string      a sequence of one-character strings ("" is << >>)         *)
(*   *T          Nil (<< >>) or Ptr(v) (<< v >>)                           *)
(*   []string    [nil |-> BOOLEAN, elems |-> sequence]; the segment list   *)
(*               of ParseImageID is kept as a plain sequence together with *)
(*               the error value, a nil list being << >>                   *)
(*   panic       the "panic" outcome of a call                             *)
(***************************************************************************)
EXTENDS Integers, Sequences, FiniteSets, TLC

VARIABLES fn, shape, id, ref, third, vm, subnet, pc, ret, logged, parseCalls

vars == <<fn, shape, id, ref, third, vm, subnet, pc, ret, logged, parseCalls>>

(***************************************************************************)
(* Bounds of the input sets.                                               *)
(***************************************************************************)
\* segments of the canonical ID replaced by another word
MaxEdits == 1
\* segments appended after the version segment
MaxExtra == 1
\* length of a run of '/' (leading, between two segments, trailing)
MaxSlashes == 2
\* length of a zone list or of an address-prefix list
MaxList == 2

(***************************************************************************)
(* Pointers and slices.                                                    *)
(***************************************************************************)
Nil == << >>
Ptr(v) == << v >>
Deref(p) == p[1]

NilSlice == [nil |-> TRUE, elems |-> << >>]
MkSlice(s) == [nil |-> FALSE, elems |-> s]

\* to.String: the pointed-to string, "" for a nil pointer
to_String(p) == IF p = Nil THEN << >> ELSE Deref(p)

\* to.StringSlice: the pointed-to slice, nil for a nil pointer
to_StringSlice(p) == IF p = Nil THEN NilSlice ELSE Deref(p)

(***************************************************************************)
(* Strings.                                                                *)
(***************************************************************************)
Slash == "/"

Uppers == <<"A","B","C","D","E","F","G","H","I","J","K","L","M",
            "N","O","P","Q","R","S","T","U","V","W","X","Y","Z">>
Lowers == <<"a","b","c","d","e","f","g","h","i","j","k","l","m",
            "n","o","p","q","r","s","t","u","v","w","x","y","z">>

\* the lower-case letter of every upper-case letter
LowerOf ==
    [c \in {Uppers[k] : k \in DOMAIN Uppers} |->
        Lowers[CHOOSE k \in DOMAIN Uppers : Uppers[k] = c]]

\* a character folded to lower case, as EqualFold compares characters
\* (the characters of the model are ASCII)
FoldRune(c) == IF c \in DOMAIN LowerOf THEN LowerOf[c] ELSE c

\* strings.EqualFold: equal lengths and equal characters up to case
EqualFold(s, t) ==
    /\ Len(s) = Len(t)
    /\ \A k \in 1..Len(s) : FoldRune(s[k]) = FoldRune(t[k])

\* strings.HasPrefix(id, "/")
HasPrefix(s, c) == Len(s) >= 1 /\ s[1] = c

\* the string literals of vmss.go
kwSubscriptions == <<"s","u","b","s","c","r","i","p","t","i","o","n","s">>
kwResourceGroups == <<"r","e","s","o","u","r","c","e","g","r","o","u","p","s">>
kwProviders == <<"p","r","o","v","i","d","e","r","s">>
kwMicrosoftCompute ==
    <<"M","i","c","r","o","s","o","f","t",".","C","o","m","p","u","t","e">>
kwGalleries == <<"g","a","l","l","e","r","i","e","s">>
kwImages == <<"i","m","a","g","e","s">>
kwVersions == <<"v","e","r","s","i","o","n","s">>


(***************************************************************************)
(* splitStringAndOmitEmpty and ParseImageID (vmss.go).                     *)
(***************************************************************************)
\* strings.Index(v[from..], sep): the first separator at or after position
\* from, Len(v) + 1 when there is none
NextSep(v, sep, from) ==
    LET at == {m \in from..Len(v) : v[m] = sep} IN
    IF at # {} THEN CHOOSE m \in at : \A j \in at : m <= j
    ELSE Len(v) + 1

\* strings.Split(v, sep) for a one-character separator: the pieces between
\* the separators, empty pieces included (n separators give n+1 pieces)
RECURSIVE SplitFrom(_, _, _, _)
SplitFrom(v, sep, from, acc) ==
    LET m == NextSep(v, sep, from) IN
    IF m > Len(v) THEN Append(acc, SubSeq(v, from, Len(v)))
    ELSE SplitFrom(v, sep, m + 1, Append(acc, SubSeq(v, from, m - 1)))

strings_Split(v, sep) == SplitFrom(v, sep, 1, << >>)

NonEmpty(s) == Len(s) # 0

\* a plausible slip: the empty pieces are kept
splitKeepEmpty(v, sep) == strings_Split(v, sep)

splitStringAndOmitEmpty(v, sep) == SelectSeq(strings_Split(v, sep), NonEmpty)

\* parts[i] with the zero-based index of the Go code
At(parts, i) == parts[i + 1]

\* number of segments an image ID needs
MinParts == 12

ErrNone == "nil"
ErrEmpty == "invalid resource ID: id cannot be empty"
ErrNoSlash == "invalid resource ID: resource id must start with '/'"
ErrShort == "invalid resource ID"
ErrType == "invalid image id type we only accept Microsoft.Compute/galleries"
ErrSubscription == "invalid image ID subscription keyword or subscription is empty"
ErrResourceGroup == "invalid image ID rg keyword missing or rg is empty"
ErrProviders == "invalid image ID providers keyword missing"
ErrVersions == "invalid image ID versions keyword missing or version is empty"

Failed(e) == [parts |-> << >>, err |-> e]

\* a plausible slip: the segments are returned along with the error
ParseImageIDKeepsParts(id_) ==
    IF Len(id_) = 0 THEN Failed(ErrEmpty)
    ELSE IF ~HasPrefix(id_, Slash) THEN Failed(ErrNoSlash)
    ELSE LET parts == splitStringAndOmitEmpty(id_, Slash) IN
         IF Len(parts) < MinParts THEN [parts |-> parts, err |-> ErrShort]
         ELSE IF \/ ~EqualFold(At(parts, 5), kwMicrosoftCompute)
                 \/ ~EqualFold(At(parts, 6), kwGalleries)
              THEN [parts |-> parts, err |-> ErrType]
         ELSE IF ~EqualFold(At(parts, 0), kwSubscriptions) \/ At(parts, 1) = << >>
              THEN [parts |-> parts, err |-> ErrSubscription]
         ELSE IF ~EqualFold(At(parts, 2), kwResourceGroups) \/ At(parts, 3) = << >>
              THEN [parts |-> parts, err |-> ErrResourceGroup]
         ELSE IF ~EqualFold(At(parts, 4), kwProviders)
              THEN [parts |-> parts, err |-> ErrProviders]
         ELSE IF ~EqualFold(At(parts, 10), kwVersions) \/ At(parts, 11) = << >>
              THEN [parts |-> parts, err |-> ErrVersions]
         ELSE [parts |-> parts, err |-> ErrNone]

ParseImageID(id_) ==
    IF Len(id_) = 0 THEN Failed(ErrEmpty)
    ELSE IF ~HasPrefix(id_, Slash) THEN Failed(ErrNoSlash)
    ELSE LET parts == splitStringAndOmitEmpty(id_, Slash) IN
         IF Len(parts) < MinParts THEN Failed(ErrShort)
         ELSE IF \/ ~EqualFold(At(parts, 5), kwMicrosoftCompute)
                 \/ ~EqualFold(At(parts, 6), kwGalleries)
              THEN Failed(ErrType)
         ELSE IF ~EqualFold(At(parts, 0), kwSubscriptions) \/ At(parts, 1) = << >>
              THEN Failed(ErrSubscription)
         ELSE IF ~EqualFold(At(parts, 2), kwResourceGroups) \/ At(parts, 3) = << >>
              THEN Failed(ErrResourceGroup)
         ELSE IF ~EqualFold(At(parts, 4), kwProviders)
              THEN Failed(ErrProviders)
         ELSE IF ~EqualFold(At(parts, 10), kwVersions) \/ At(parts, 11) = << >>
              THEN Failed(ErrVersions)
         ELSE [parts |-> parts, err |-> ErrNone]

(***************************************************************************)
(* SDKImageToImage (vmss.go).                                              *)
(***************************************************************************)
\* the zero values of infrav1.AzureMarketplaceImage, AzureComputeGalleryImage,
\* AzureSharedGalleryImage and Image
ZeroMarketplace ==
    [Publisher |-> << >>, Offer |-> << >>, SKU |-> << >>,
     Version |-> << >>, ThirdPartyImage |-> FALSE]
ZeroComputeGallery ==
    [SubscriptionID |-> Nil, ResourceGroup |-> Nil,
     Gallery |-> << >>, Name |-> << >>, Version |-> << >>]
ZeroSharedGallery ==
    [SubscriptionID |-> << >>, ResourceGroup |-> << >>,
     Gallery |-> << >>, Name |-> << >>, Version |-> << >>]
ZeroImage ==
    [ID |-> Nil, SharedGallery |-> Nil, Marketplace |-> Nil, ComputeGallery |-> Nil]

\* a plausible slip: offer and SKU exchanged
MarketplaceSwapped(sdkImageRef, isThirdPartyImage) ==
    [Publisher |-> to_String(sdkImageRef.Publisher),
     Offer |-> to_String(sdkImageRef.Sku),
     SKU |-> to_String(sdkImageRef.Offer),
     Version |-> to_String(sdkImageRef.Version),
     ThirdPartyImage |-> isThirdPartyImage]

\* the marketplace image built when the ID is empty (lines 109-117)
MarketplaceOf(sdkImageRef, isThirdPartyImage) ==
    [Publisher |-> to_String(sdkImageRef.Publisher),
     Offer |-> to_String(sdkImageRef.Offer),
     SKU |-> to_String(sdkImageRef.Sku),
     Version |-> to_String(sdkImageRef.Version),
     ThirdPartyImage |-> isThirdPartyImage]

\* one "if strings.EqualFold(parts[i], kw) { field = parts[i + 1] }" of the
\* loop body; st = [panic, img].  parts[i + 1] past the end of the slice is
\* an index-out-of-range panic.
ScanKeyword(st, parts, i, kw, field, asPtr) ==
    IF st.panic \/ ~EqualFold(At(parts, i), kw) THEN st
    ELSE IF i + 1 >= Len(parts) THEN [st EXCEPT !.panic = TRUE]
    ELSE [st EXCEPT !.img[field] =
              IF asPtr THEN Ptr(At(parts, i + 1)) ELSE At(parts, i + 1)]

\* the body of "for i := range(parts)" (lines 125-139)
ScanBody(st, parts, i) ==
    LET a == ScanKeyword(st, parts, i, kwSubscriptions, "SubscriptionID", TRUE)
        b == ScanKeyword(a, parts, i, kwResourceGroups, "ResourceGroup", TRUE)
        c == ScanKeyword(b, parts, i, kwGalleries, "Gallery", FALSE)
        d == ScanKeyword(c, parts, i, kwImages, "Name", FALSE)
    IN  ScanKeyword(d, parts, i, kwVersions, "Version", FALSE)

RECURSIVE ScanParts(_, _, _)
ScanParts(parts, i, st) ==
    IF st.panic \/ i >= Len(parts) THEN st
    ELSE ScanParts(parts, i + 1, ScanBody(st, parts, i))

\* a plausible slip: the marketplace image is filled in whatever the ID
MarketImgAlways(imgId, sdkImageRef, isThirdPartyImage) ==
    MarketplaceOf(sdkImageRef, isThirdPartyImage)

\* "var marketImg" and its assignment under "if imgId == """ (lines 105-117)
MarketImg(imgId, sdkImageRef, isThirdPartyImage) ==
    IF imgId = << >> THEN MarketplaceOf(sdkImageRef, isThirdPartyImage)
    ELSE ZeroMarketplace

\* the returned infrav1.Image (lines 143-148)
ImageOf(imgId, marketImg, computeImg) ==
    [ID |-> Ptr(imgId),
     SharedGallery |-> Ptr(ZeroSharedGallery),
     Marketplace |-> Ptr(marketImg),
     ComputeGallery |-> Ptr(computeImg)]

\* The outcome of a call: whether it panicked, the returned image, the
\* number of errors handed to log.Log.Error and of calls of ParseImageID.
SDKImageToImage(sdkImageRef, isThirdPartyImage) ==
    LET imgId == to_String(sdkImageRef.ID)
        marketImg == MarketImg(imgId, sdkImageRef, isThirdPartyImage)
    IN
    IF imgId = << >>
    THEN [panic |-> FALSE,
          img |-> ImageOf(imgId, marketImg, ZeroComputeGallery),
          logged |-> 0, parseCalls |-> 0]
    ELSE LET p == ParseImageID(imgId)
             st == ScanParts(p.parts, 0, [panic |-> FALSE, img |-> ZeroComputeGallery])
         IN  [panic |-> st.panic,
              img |-> IF st.panic THEN ZeroImage
                      ELSE ImageOf(imgId, marketImg, st.img),
              logged |-> IF p.err # ErrNone THEN 1 ELSE 0,
              parseCalls |-> 1]

(***************************************************************************)
(* SDKToVMSSVM (vmss.go).                                                  *)
(*                                                                         *)
(* A compute.VirtualMachineScaleSetVM is                                   *)
(*   [ID, InstanceID, Properties, Plan, Zones]                             *)
(* where Properties is the embedded *VirtualMachineScaleSetVMProperties,   *)
(*   Nil or Ptr([ProvisioningState, OsProfile, StorageProfile]),           *)
(* OsProfile is Nil or Ptr([ComputerName]), StorageProfile is Nil or       *)
(* Ptr([ImageReference]), and Zones is a *[]string.                        *)
(***************************************************************************)
\* infrav1.Creating
Creating == <<"C","r","e","a","t","i","n","g">>

\* the zero value of azure.VMSSVM with the two fields of the literal set
InstanceOf(sdkInstance) ==
    [ID |-> to_String(sdkInstance.ID),
     InstanceID |-> to_String(sdkInstance.InstanceID),
     State |-> << >>, Name |-> << >>, Image |-> ZeroImage,
     AvailabilityZone |-> << >>]

Returned(instance, logged_, parseCalls_) ==
    [panic |-> FALSE, instance |-> instance,
     logged |-> logged_, parseCalls |-> parseCalls_]

SDKToVMSSVM(sdkInstance) ==
    LET instance == InstanceOf(sdkInstance) IN
    IF sdkInstance.Properties = Nil THEN Returned(instance, 0, 0)
    ELSE
    LET props == Deref(sdkInstance.Properties)
        state == IF props.ProvisioningState # Nil
                 THEN to_String(props.ProvisioningState)
                 ELSE Creating
        name  == IF props.OsProfile # Nil /\ Deref(props.OsProfile).ComputerName # Nil
                 THEN Deref(Deref(props.OsProfile).ComputerName)
                 ELSE instance.Name
        hasImage == /\ props.StorageProfile # Nil
                    /\ Deref(props.StorageProfile).ImageReference # Nil
        conv  == SDKImageToImage(Deref(Deref(props.StorageProfile).ImageReference),
                                 sdkInstance.Plan # Nil)
        zone  == IF sdkInstance.Zones # Nil /\ Len(Deref(sdkInstance.Zones).elems) > 0
                 THEN to_StringSlice(sdkInstance.Zones).elems[1]
                 ELSE instance.AvailabilityZone
    IN
    IF hasImage /\ conv.panic
    THEN [panic |-> TRUE, instance |-> InstanceOf(sdkInstance),
          logged |-> conv.logged, parseCalls |-> conv.parseCalls]
    ELSE Returned([instance EXCEPT !.State = state,
                                   !.Name = name,
                                   !.Image = IF hasImage THEN conv.img ELSE @,
                                   !.AvailabilityZone = zone],
                  IF hasImage THEN conv.logged ELSE 0,
                  IF hasImage THEN conv.parseCalls ELSE 0)

(***************************************************************************)
(* GetSubnetAddresses (subnets.go).                                        *)
(*                                                                         *)
(* A network.Subnet is [Properties], the embedded *SubnetPropertiesFormat: *)
(* Nil or Ptr([AddressPrefix, AddressPrefixes]), a *string and a *[]string *)
(***************************************************************************)
\* a plausible slip: the list-valued field is looked at first
GetSubnetAddressesListFirst(subnet_) ==
    IF subnet_.Properties # Nil /\ Deref(subnet_.Properties).AddressPrefixes # Nil
    THEN to_StringSlice(Deref(subnet_.Properties).AddressPrefixes)
    ELSE IF subnet_.Properties # Nil /\ Deref(subnet_.Properties).AddressPrefix # Nil
    THEN MkSlice(<<to_String(Deref(subnet_.Properties).AddressPrefix)>>)
    ELSE NilSlice

GetSubnetAddresses(subnet_) ==
    IF subnet_.Properties # Nil /\ Deref(subnet_.Properties).AddressPrefix # Nil
    THEN MkSlice(<<to_String(Deref(subnet_.Properties).AddressPrefix)>>)
    ELSE IF subnet_.Properties # Nil /\ Deref(subnet_.Properties).AddressPrefixes # Nil
    THEN to_StringSlice(Deref(subnet_.Properties).AddressPrefixes)
    ELSE NilSlice

(***************************************************************************)
(* Inputs.                                                                 *)
(*                                                                         *)
(* An image ID is written out from a shape [segs, lead, gap, trail]: the   *)
(* segments segs, after a run of lead slashes, separated by runs of gap    *)
(* slashes and followed by a run of trail slashes.  The shape is kept      *)
(* beside the string, so that what the parser returns can be compared with *)
(* the segments the string was written from.                               *)
(***************************************************************************)
UpperOf ==
    [c \in {Lowers[k] : k \in DOMAIN Lowers} |->
        Uppers[CHOOSE k \in DOMAIN Lowers : Lowers[k] = c]]

UpperRune(c) == IF c \in DOMAIN UpperOf THEN UpperOf[c] ELSE c

ToUpper(s) == [k \in 1..Len(s) |-> UpperRune(s[k])]
ToLower(s) == [k \in 1..Len(s) |-> FoldRune(s[k])]

\* "resourceGroups", as Azure writes it
wResourceGroups == <<"r","e","s","o","u","r","c","e","G","r","o","u","p","s">>
wSub == <<"s","1">>
wRg == <<"r","g">>
wGallery == <<"g">>
wImage == <<"i","-","1">>
wVersion == <<"1",".","0">>
wImage5 == <<"i","m","a","g","e">>
wNetwork == <<"M","i","c","r","o","s","o","f","t",".","N","e","t">>

\* /subscriptions/s1/resourceGroups/rg/providers/Microsoft.Compute
\*   /galleries/g/images/i-1/versions/1.0
Canonical ==
    <<kwSubscriptions, wSub, wResourceGroups, wRg, kwProviders,
      kwMicrosoftCompute, kwGalleries, wGallery, kwImages, wImage,
      kwVersions, wVersion>>

\* the words a segment is replaced by: the five keywords the resolver scans
\* for, two of them in another case, a literal in another case, and two
\* words that are no keyword
Vocabulary ==
    {kwSubscriptions, kwResourceGroups, kwGalleries, kwImages, kwVersions,
     ToUpper(kwImages), ToUpper(kwVersions), ToLower(kwMicrosoftCompute),
     wImage5, wNetwork}

RECURSIVE Edits(_)
Edits(k) ==
    IF k = 0 THEN {Canonical}
    ELSE LET E == Edits(k - 1) IN
         E \cup {[s EXCEPT ![p] = w] : s \in E, p \in DOMAIN Canonical, w \in Vocabulary}

RECURSIVE Words(_)
Words(k) ==
    IF k = 0 THEN {<< >>}
    ELSE LET W == Words(k - 1) IN
         W \cup {Append(e, w) : e \in W, w \in Vocabulary}

Truncated == {SubSeq(Canonical, 1, n) : n \in 0..(Len(Canonical) - 1)}
Extended == {Canonical \o e : e \in Words(MaxExtra)}
Recased == {[k \in DOMAIN Canonical |-> ToUpper(Canonical[k])],
            [k \in DOMAIN Canonical |-> ToLower(Canonical[k])]}

RECURSIVE Slashes(_)
Slashes(n) == IF n = 0 THEN << >> ELSE <<Slash>> \o Slashes(n - 1)

RECURSIVE Joined(_, _, _)
Joined(segs, k, gap) ==
    IF k > Len(segs) THEN << >>
    ELSE segs[k] \o (IF k < Len(segs) THEN Slashes(gap) ELSE << >>)
                 \o Joined(segs, k + 1, gap)

Render(sh) == Slashes(sh.lead) \o Joined(sh.segs, 1, sh.gap) \o Slashes(sh.trail)

Shapes ==
    {[segs |-> s, lead |-> 1, gap |-> 1, trail |-> 0] :
        s \in Edits(MaxEdits) \cup Truncated \cup Extended \cup Recased}
    \cup
    {[segs |-> s, lead |-> l, gap |-> g, trail |-> t] :
        s \in Recased \cup {Canonical, SubSeq(Canonical, 1, Len(Canonical) - 1), << >>},
        l \in 0..MaxSlashes, g \in 1..MaxSlashes, t \in 0..MaxSlashes}

NoShape == [segs |-> << >>, lead |-> 0, gap |-> 1, trail |-> 0]

\* compute.ImageReference
wP == <<"p">>
wO == <<"o">>
wSku == <<"s">>
wV == <<"v">>
OptString(w) == {Nil, Ptr(w)}
PlanFields ==
    {[Publisher |-> Nil, Offer |-> Nil, Sku |-> Nil, Version |-> Nil],
     [Publisher |-> Ptr(wP), Offer |-> Ptr(wO), Sku |-> Ptr(wSku), Version |-> Ptr(wV)]}
ImageRef(i, f) ==
    [ID |-> i, Publisher |-> f.Publisher, Offer |-> f.Offer,
     Sku |-> f.Sku, Version |-> f.Version]
MarketRefs ==
    [ID : {Nil, Ptr(<< >>)}, Publisher : OptString(wP), Offer : OptString(wO),
     Sku : OptString(wSku), Version : OptString(wV)]
NoRef == ImageRef(Nil, [Publisher |-> Nil, Offer |-> Nil, Sku |-> Nil, Version |-> Nil])

\* image references of an instance: a marketplace one, and gallery IDs that
\* are well formed, rejected, and ending in a keyword
SampleShapes ==
    {[segs |-> s, lead |-> 1, gap |-> 1, trail |-> 0] :
        s \in {Canonical, SubSeq(Canonical, 1, 4),
               [Canonical EXCEPT ![12] = kwVersions]}}
SampleRefs ==
    {ImageRef(Ptr(Render(sh)), f) : sh \in SampleShapes, f \in PlanFields}
    \cup {ImageRef(Nil, f) : f \in PlanFields}

\* lists of at most MaxList strings
wZ1 == <<"1">>
wZ2 == <<"2">>
RECURSIVE Lists(_, _)
Lists(S, k) ==
    IF k = 0 THEN {<< >>}
    ELSE LET L == Lists(S, k - 1) IN L \cup {Append(l, x) : l \in L, x \in S}
OptSlices(S) == {Nil, Ptr(NilSlice)} \cup {Ptr(MkSlice(l)) : l \in Lists(S, MaxList)}

wSucceeded == <<"S","u","c","c","e","e","d","e","d">>
wName == <<"v","m","0">>
wID == <<"/","v","m","s","s","/","0">>
PropertiesSet ==
    {Nil} \cup
    {Ptr(x) : x \in
        [ProvisioningState : {Nil, Ptr(<< >>), Ptr(wSucceeded)},
         OsProfile : {Nil, Ptr([ComputerName |-> Nil]), Ptr([ComputerName |-> Ptr(wName)])},
         StorageProfile : {Nil, Ptr([ImageReference |-> Nil])}
                          \cup {Ptr([ImageReference |-> Ptr(r)]) : r \in SampleRefs}]}
Instances ==
    [ID : OptString(wID), InstanceID : OptString(wZ1), Properties : PropertiesSet,
     Plan : {Nil, Ptr("plan")}, Zones : OptSlices({wZ1, wZ2})]
NoInstance ==
    [ID |-> Nil, InstanceID |-> Nil, Properties |-> Nil, Plan |-> Nil, Zones |-> Nil]

\* network.Subnet
wPrefix1 == <<"1","0",".","0",".","0",".","0","/","2","4">>
wPrefix2 == <<"1","0",".","0",".","1",".","0","/","2","4">>
Subnets ==
    {[Properties |-> Nil]} \cup
    {[Properties |-> Ptr(x)] : x \in
        [AddressPrefix : {Nil, Ptr(<< >>), Ptr(wPrefix1), Ptr(wPrefix2)},
         AddressPrefixes : OptSlices({wPrefix1, wPrefix2})]}
NoSubnet == [Properties |-> Nil]

(***************************************************************************)
(* The harness.                                                            *)
(***************************************************************************)
NoRet == [status |-> "none"]

InitParseImageID ==
    /\ fn = "ParseImageID"
    /\ shape \in Shapes
    /\ id = Render(shape)
    /\ ref = NoRef /\ third = FALSE /\ vm = NoInstance /\ subnet = NoSubnet

InitSDKImageToImage ==
    /\ fn = "SDKImageToImage"
    /\ \/ /\ shape \in Shapes
          /\ id = Render(shape)
          /\ ref \in {ImageRef(Ptr(id), f) : f \in PlanFields}
       \/ /\ shape = NoShape
          /\ id = << >>
          /\ ref \in MarketRefs
    /\ third \in BOOLEAN
    /\ vm = NoInstance /\ subnet = NoSubnet

InitSDKToVMSSVM ==
    /\ fn = "SDKToVMSSVM"
    /\ vm \in Instances
    /\ shape = NoShape /\ id = << >> /\ ref = NoRef /\ third = FALSE
    /\ subnet = NoSubnet

InitGetSubnetAddresses ==
    /\ fn = "GetSubnetAddresses"
    /\ subnet \in Subnets
    /\ shape = NoShape /\ id = << >> /\ ref = NoRef /\ third = FALSE
    /\ vm = NoInstance

Init ==
    /\ \/ InitParseImageID
       \/ InitSDKImageToImage
       \/ InitSDKToVMSSVM
       \/ InitGetSubnetAddresses
    /\ pc = "call"
    /\ ret = NoRet
    /\ logged = 0
    /\ parseCalls = 0

CallParseImageID ==
    /\ pc = "call" /\ fn = "ParseImageID"
    /\ LET r == ParseImageID(id) IN
       ret' = [status |-> "returned", parts |-> r.parts, err |-> r.err]
    /\ parseCalls' = parseCalls + 1
    /\ pc' = "done"
    /\ UNCHANGED <<fn, shape, id, ref, third, vm, subnet, logged>>

CallSDKImageToImage ==
    /\ pc = "call" /\ fn = "SDKImageToImage"
    /\ LET r == SDKImageToImage(ref, third) IN
       /\ ret' = [status |-> IF r.panic THEN "panic" ELSE "returned", img |-> r.img]
       /\ logged' = logged + r.logged
       /\ parseCalls' = parseCalls + r.parseCalls
    /\ pc' = "done"
    /\ UNCHANGED <<fn, shape, id, ref, third, vm, subnet>>

CallSDKToVMSSVM ==
    /\ pc = "call" /\ fn = "SDKToVMSSVM"
    /\ LET r == SDKToVMSSVM(vm) IN
       /\ ret' = [status |-> IF r.panic THEN "panic" ELSE "returned",
                  instance |-> r.instance]
       /\ logged' = logged + r.logged
       /\ parseCalls' = parseCalls + r.parseCalls
    /\ pc' = "done"
    /\ UNCHANGED <<fn, shape, id, ref, third, vm, subnet>>

CallGetSubnetAddresses ==
    /\ pc = "call" /\ fn = "GetSubnetAddresses"
    /\ ret' = [status |-> "returned", addresses |-> GetSubnetAddresses(subnet)]
    /\ pc' = "done"
    /\ UNCHANGED <<fn, shape, id, ref, third, vm, subnet, logged, parseCalls>>

Next ==
    \/ CallParseImageID
    \/ CallSDKImageToImage
    \/ CallSDKToVMSSVM
    \/ CallGetSubnetAddresses

Spec == Init /\ [][Next]_vars

(***************************************************************************)
(* Properties.                                                             *)
(***************************************************************************)
\* the literals of the grammar
\*   /subscriptions/{sub}/resourceGroups/{rg}/providers/Microsoft.Compute
\*     /galleries/{gallery}/images/{image}/versions/{version}
\* by segment position
GrammarLiteral ==
    (0 :> kwSubscriptions) @@ (2 :> kwResourceGroups) @@ (4 :> kwProviders) @@
    (5 :> kwMicrosoftCompute) @@ (6 :> kwGalleries) @@ (8 :> kwImages) @@
    (10 :> kwVersions)

\* the positions ParseImageID looks at
ValidatedPositions == {0, 2, 4, 5, 6, 10}

HasLiteral(segs, p) == p < Len(segs) /\ EqualFold(At(segs, p), GrammarLiteral[p])

\* a pointer's string, the empty string when the field is absent
StringOrEmpty(p) == IF p = Nil THEN << >> ELSE p[1]

DoneParseImageID == fn = "ParseImageID" /\ pc = "done"
DoneSDKImageToImage == fn = "SDKImageToImage" /\ pc = "done"
DoneSDKToVMSSVM == fn = "SDKToVMSSVM" /\ pc = "done"
DoneGetSubnetAddresses == fn = "GetSubnetAddresses" /\ pc = "done"

\* the ID of the image reference is non-empty and ParseImageID accepts it
AcceptedID == ref.ID # Nil /\ ref.ID[1] # << >> /\ ParseImageID(ref.ID[1]).err = ErrNone
\* the ID of the image reference is non-empty and ParseImageID rejects it
RejectedID == ref.ID # Nil /\ ref.ID[1] # << >> /\ ParseImageID(ref.ID[1]).err # ErrNone

\* C1: an ID that misses the literal of the grammar at one of the positions
\* 0, 2, 4, 5, 6, 8, 10 makes ParseImageID return an error and no segments.
C1_MissingLiteralRejected ==
    (DoneParseImageID /\ \E p \in DOMAIN GrammarLiteral : ~HasLiteral(shape.segs, p))
        => (ret.err # ErrNone /\ ret.parts = << >>)

\* C2: for an ID that ParseImageID accepts, the returned ComputeGallery has
\* SubscriptionID, ResourceGroup, Gallery, Name and Version equal to the
\* segments 1, 3, 7, 9 and 11, whatever the value segments spell.
C2_GalleryFieldsMatchSegments ==
    (DoneSDKImageToImage /\ AcceptedID /\ ret.status = "returned")
        => /\ ret.img.ComputeGallery # Nil
           /\ LET g == ret.img.ComputeGallery[1] IN
              /\ g.SubscriptionID = Ptr(At(shape.segs, 1))
              /\ g.ResourceGroup = Ptr(At(shape.segs, 3))
              /\ g.Gallery = At(shape.segs, 7)
              /\ g.Name = At(shape.segs, 9)
              /\ g.Version = At(shape.segs, 11)

\* C3: an ID that starts with '/', has at least 12 non-empty segments and
\* carries the literals at the validated positions is parsed without error
\* into exactly its non-empty segments, in order.
C3_ValidIDsParse ==
    (/\ DoneParseImageID
     /\ shape.lead >= 1
     /\ Len(shape.segs) >= 12
     /\ \A p \in ValidatedPositions : HasLiteral(shape.segs, p))
        => (ret.err = ErrNone /\ ret.parts = shape.segs)

C3_Witness ==
    /\ DoneParseImageID
    /\ shape.lead = 2 /\ shape.gap = 2 /\ shape.trail >= 1
    /\ Len(shape.segs) >= 12
    /\ \A p \in ValidatedPositions : HasLiteral(shape.segs, p)
    /\ shape.segs # Canonical
    /\ ret.err = ErrNone

\* C4: with a non-empty ID that ParseImageID rejects, SDKImageToImage logs
\* the error and still returns an image, whose ComputeGallery has every
\* field at its zero value.
C4_RejectedIDGivesEmptyGallery ==
    (DoneSDKImageToImage /\ RejectedID)
        => /\ ret.status = "returned"
           /\ logged = 1
           /\ ret.img.ComputeGallery = Ptr(ZeroComputeGallery)

C4_Witness ==
    /\ DoneSDKImageToImage
    /\ RejectedID
    /\ Len(shape.segs) >= 12
    /\ shape.lead = 1
    /\ ret.status = "returned"

\* C5: with an empty ID (absent or "") SDKImageToImage returns a Marketplace
\* image holding the input's publisher, offer, SKU and version (empty when
\* absent) and the isThirdPartyImage flag, without calling ParseImageID.
C5_EmptyIDGivesMarketplace ==
    (DoneSDKImageToImage /\ (ref.ID = Nil \/ ref.ID = Ptr(<< >>)))
        => /\ ret.status = "returned"
           /\ ret.img.Marketplace =
                  Ptr([Publisher |-> StringOrEmpty(ref.Publisher),
                       Offer |-> StringOrEmpty(ref.Offer),
                       SKU |-> StringOrEmpty(ref.Sku),
                       Version |-> StringOrEmpty(ref.Version),
                       ThirdPartyImage |-> third])
           /\ parseCalls = 0

C5_Witness ==
    /\ DoneSDKImageToImage
    /\ ref.ID = Ptr(<< >>)
    /\ ref.Publisher = Nil /\ ref.Offer = Ptr(wO) /\ ref.Sku = Ptr(wSku)
    /\ third
    /\ ret.status = "returned"

\* C6: GetSubnetAddresses returns the single address prefix alone when it is
\* set (the list field being ignored), else the elements of the list field
\* in order when that is set, else an empty list.
C6_SubnetAddresses ==
    DoneGetSubnetAddresses =>
        LET got == ret.addresses.elems IN
        IF subnet.Properties # Nil /\ subnet.Properties[1].AddressPrefix # Nil
        THEN got = << subnet.Properties[1].AddressPrefix[1] >>
        ELSE IF subnet.Properties # Nil /\ subnet.Properties[1].AddressPrefixes # Nil
        THEN got = subnet.Properties[1].AddressPrefixes[1].elems
        ELSE got = << >>

C6_Witness ==
    /\ DoneGetSubnetAddresses
    /\ subnet.Properties # Nil
    /\ subnet.Properties[1].AddressPrefix = Ptr(wPrefix2)
    /\ subnet.Properties[1].AddressPrefixes # Nil
    /\ Len(subnet.Properties[1].AddressPrefixes[1].elems) = 2
    /\ ret.addresses.elems = << wPrefix2 >>

\* C7: every image SDKImageToImage returns carries the ID string of the
\* input, an empty SharedGallery, a zero ComputeGallery when the ID is empty
\* and a zero Marketplace (ThirdPartyImage false) when the ID is not empty.
C7_OneVariantPopulated ==
    (DoneSDKImageToImage /\ ret.status = "returned")
        => /\ ret.img.ID = Ptr(StringOrEmpty(ref.ID))
           /\ ret.img.SharedGallery = Ptr(ZeroSharedGallery)
           /\ StringOrEmpty(ref.ID) = << >>
                  => ret.img.ComputeGallery = Ptr(ZeroComputeGallery)
           /\ StringOrEmpty(ref.ID) # << >>
                  => ret.img.Marketplace = Ptr(ZeroMarketplace)

C7_Witness ==
    /\ DoneSDKImageToImage
    /\ ret.status = "returned"
    /\ StringOrEmpty(ref.ID) # << >>
    /\ ref.Publisher # Nil
    /\ third
    /\ ret.img.ComputeGallery # Ptr(ZeroComputeGallery)

\* C8: the State of the instance SDKToVMSSVM returns is "Creating" when the
\* provisioning state of the SDK instance is absent, also when the whole
\* properties block is absent, and the SDK value otherwise.
C8_StateDefaultsToCreating ==
    (DoneSDKToVMSSVM /\ ret.status = "returned")
        => ret.instance.State =
               IF vm.Properties = Nil \/ vm.Properties[1].ProvisioningState = Nil
               THEN Creating
               ELSE vm.Properties[1].ProvisioningState[1]

\* C9: the AvailabilityZone of the instance SDKToVMSSVM returns is the first
\* element of the zone list when that list is non-empty, whatever else is
\* present or absent, and empty when the list is absent or empty.
C9_FirstZoneKept ==
    (DoneSDKToVMSSVM /\ ret.status = "returned")
        => ret.instance.AvailabilityZone =
               IF vm.Zones # Nil /\ vm.Zones[1].elems # << >>
               THEN vm.Zones[1].elems[1]
               ELSE << >>

\* C10: SDKImageToImage returns for every image reference with a non-empty
\* ID: no read of the segment after a matched keyword leaves the list.
C10_ScanStaysInRange ==
    (DoneSDKImageToImage /\ StringOrEmpty(ref.ID) # << >>)
        => ret.status = "returned"

=============================================================================
